---- MODULE Spec2Model ----
(***************************************************************************)
(* The IRRF calculator of app.js: the POST /calcular-irrf handler, in its  *)
(* two versions (app.js lines 43-122 and 271-478), as a state machine,     *)
(* behind the cors middleware the file installs (lines 236-240), and the   *)
(* form of the React application that calls it (unnamed/part_001).         *)
(*                                                                         *)
(* Numbers.  Every JavaScript double the handler touches is held as an     *)
(* integer count of hundred-thousandths: 189.59 is 18959000, the rate 7.5  *)
(* (percent) is 750000, one cent is 1000.  At this scale every value the   *)
(* handler computes from inputs given to at most five decimals is an       *)
(* integer, except 0.133145 * rendimento_tributavel, which is carried as   *)
(* an integer part and a fraction (see coeficienteVezes).  Three values    *)
(* stand for the doubles that are not ordinary amounts: Infinity,          *)
(* -Infinity and NaN; Enorme stands for a finite double so large (1e307)   *)
(* that a hundred times it overflows.                                      *)
(*                                                                         *)
(* Amounts of trillions.  From 2^45 (35184372088832) up, doubles lie 1/128 *)
(* apart and a hundred times such a double lies between 2^51 and 2^52,     *)
(* where doubles lie 1/2 apart: the cent is finer than the doubles.  The   *)
(* integers from Escala45 up to FimDaEscala45 stand for the doubles        *)
(* 2^45 + j / 128, and those from Escala43 up to Escala45 for the doubles  *)
(* of the tax on such amounts, which lie 1/512 apart (between 2^43 and     *)
(* 2^44); each is the double's distance from the first of its scale in     *)
(* hundred-thousandths, to the nearest, so that the order of the integers  *)
(* is the order of the doubles.  The operators on doubles compute on the   *)
(* index j of such a double as IEEE-754 arithmetic does.                   *)
(*                                                                         *)
(* Strings are written without the accents of the source.                  *)
(***************************************************************************)
EXTENDS Integers, Sequences, FiniteSets, TLC

VARIABLES versao,     \* which version of app.js is deployed: 1 or 2
          TABELA_IRRF_052025,  \* the module-level array of bracket objects
          corpo,      \* req.body of the last request
          status,     \* HTTP status of the last response (0: none yet)
          resposta,   \* JSON body of the last response
          calc,       \* the handler's locals at the end of the last request
          historico,  \* first response given to each body (sessions only)
          origem,     \* Origin header of the last request ("" when it had none)
          cabecalhos, \* headers the cors middleware set on the last response
          par,        \* two net bases and the tax of each (comparisons only)
          form,       \* useState: the four fields of the form, as text
          loading,    \* useState: a submission is under way
          error,      \* useState: the message shown ("" when none)
          result,     \* useState: the response shown (null when none)
          showMemoria, \* useState: the trace is open
          pedidos,    \* the fetches of handleSubmit not yet settled, in order
          ambiente,   \* the build: import.meta.env.DEV and API_BASE
          limpo,      \* handleClear ran and handleSubmit has not run since
          ultimo      \* whether the last event settled a fetch, and its status

\* The state of the form.
formulario == <<form, loading, error, result, showMemoria, pedidos, ambiente,
                limpo, ultimo>>

vars == <<versao, TABELA_IRRF_052025, corpo, status, resposta, calc, historico,
          origem, cabecalhos, par, formulario>>

\* What a request to the server leaves alone.
alheias == <<par, formulario>>

\* The server's own state.
servidor == <<versao, TABELA_IRRF_052025, corpo, status, resposta, calc,
              historico, origem, cabecalhos>>

----------------------------------------------------------------------------
(* Doubles *)

Infinity == 2100000000
Enorme == 2000000000
NaN == -2000000000

Vazio == [k \in {} |-> 0]

null == [tipo |-> "null", valor |-> 0]

\* The builds of the form: a production build, and a development build whose
\* VITE_API_BASE_URL names localhost (the only one in which line 84 of
\* part_001 sends the request again).
Ambientes == { "producao", "dev_localhost" }

\* The useState initial values of App (part_001 lines 13-22).
FormularioInicial ==
  /\ form = [rendimento_tributavel  |-> "",
             previdencia_oficial    |-> "0",
             quantidade_dependentes |-> "0",
             pensao_alimenticia     |-> ""]
  /\ loading = FALSE
  /\ error = ""
  /\ result = null
  /\ showMemoria = FALSE
  /\ pedidos = << >>
  /\ limpo = FALSE
  /\ ultimo = [evento |-> "outro", status |-> 0]

\* Number.isFinite on a value that is a number
NumberIsFinite(x) == x # Infinity /\ x # -Infinity /\ x # NaN

\* The first double of each scale of trillions: Escala45 stands for 2^45,
\* Escala43 for 9675702323520.0703125, which is 27.5% of 2^45 less 908.73 as
\* line 313 computes it.
Escala43 == 1000000000
Escala45 == 1250000000
FimDaEscala45 == 1650000000

NaEscala45(x) == x >= Escala45 /\ x <= FimDaEscala45
NaEscala43(x) == x >= Escala43 /\ x < Escala45

\* The double 2^45 + j / 128 and the index j of such a double
\* (1/128 is 781.25 hundred-thousandths).
Valor45(j) == Escala45 + 781 * j + (j + 2) \div 4
Indice45(x) == (4 * (x - Escala45) + 1562) \div 3125

\* The double (4953959589642276 + n) / 512 and the index n of such a double
\* (1/512 is 195.3125 hundred-thousandths).
Valor43(n) == Escala43 + 195 * n + (5 * n + 8) \div 16
Indice43(x) ==
  LET d == x - Escala43
  IN  16 * (d \div 3125) + (32 * (d % 3125) + 3125) \div 6250

\* An amount y of hundred-thousandths in steps of a scale that has vezes
\* steps in 1/32, to the nearest step (4 * y / 3125 or 16 * y / 3125; never
\* half way between two steps when y is a whole number).
EmPassos(y, vezes) ==
  (y \div 3125) * vezes + (2 * vezes * (y % 3125) + 3125) \div 6250

\* t / 16 to the nearest integer, a half going to the even one: the rounding
\* of a product to a double.
ParaOPar(t) ==
  LET f == t \div 16
      r == t % 16
  IN  IF r < 8 THEN f
      ELSE IF r > 8 THEN f + 1
      ELSE IF f % 2 = 0 THEN f ELSE f + 1

\* round2 of the double 2^45 + j / 128.  Number.EPSILON is lost in the sum;
\* a hundred times the double is 100 * 2^45 + 25 * j / 32, rounded to a
\* double in halves; Math.round takes a half up; the quotient by 100 is the
\* double nearest to 2^45 + k / 100, which is 32 * k / 25 steps of 1/128.
round2NaEscala45(j) ==
  LET m == ParaOPar(25 * j)
      k == (m + 1) \div 2
  IN  (64 * k + 25) \div 50

\* round2 of the double (4953959589642276 + n) / 512: a hundred times it is
\* rounded to a double in eighths (25 * (4 + n) / 16 eighths above
\* 7740561858816050), Math.round gives 967570232352006 + k cents, and the
\* quotient by 100 is the double nearest to it, 128 / 25 steps of 1/512 the
\* cent, the first of them 36 steps below the first double of the scale.
round2NaEscala43(n) ==
  LET m == ParaOPar(25 * (4 + n))
      k == (m + 6) \div 8
  IN  (256 * (k + 6) + 25) \div 50 - 36

\* x + y on doubles
Mais(x, y) ==
  IF x = NaN \/ y = NaN THEN NaN
  ELSE IF (x = Infinity /\ y = -Infinity) \/ (x = -Infinity /\ y = Infinity) THEN NaN
  ELSE IF x = Infinity \/ y = Infinity THEN Infinity
  ELSE IF x = -Infinity \/ y = -Infinity THEN -Infinity
  ELSE IF x >= Enorme \/ y >= Enorme THEN Enorme
  ELSE IF x <= -Enorme \/ y <= -Enorme THEN -Enorme
  ELSE IF NaEscala45(x) THEN Valor45(Indice45(x) + EmPassos(y, 4))
  ELSE IF NaEscala43(x) THEN Valor43(Indice43(x) + EmPassos(y, 16))
  ELSE x + y

\* x - y on doubles
Menos(x, y) == Mais(x, IF y = NaN THEN NaN ELSE -y)

\* Math.max, Math.min
MathMax(x, y) == IF x = NaN \/ y = NaN THEN NaN ELSE IF x >= y THEN x ELSE y
MathMin(x, y) == IF x = NaN \/ y = NaN THEN NaN ELSE IF x <= y THEN x ELSE y

----------------------------------------------------------------------------
(* Module constants and helpers (app.js 242-269) *)

DEDUCAO_POR_DEPENDENTE == 18959000
DESCONTO_SIMPLIFICADO_MINIMO == 60720000

\* Math.round((value + Number.EPSILON) * 100) / 100 on a value that is a
\* whole number of hundred-thousandths: half a cent goes up (Math.round
\* rounds halves towards +Infinity, also below zero); a hundred times Enorme
\* overflows to Infinity, which Math.round and the division keep.
round2(value) ==
  IF value = NaN THEN NaN
  ELSE IF value >= Enorme THEN Infinity
  ELSE IF value <= -Enorme THEN -Infinity
  ELSE IF NaEscala45(value) THEN Valor45(round2NaEscala45(Indice45(value)))
  ELSE IF NaEscala43(value) THEN Valor43(round2NaEscala43(Indice43(value)))
  ELSE 1000 * ((value + 500) \div 1000)

\* The table with the deductions of its third and fourth brackets exchanged.
TabelaParcelasTrocadas == <<
  [limite |-> 242880000, aliquota |-> 0,       deducao |-> 0],
  [limite |-> 282665000, aliquota |-> 750000,  deducao |-> 18216000],
  [limite |-> 375105000, aliquota |-> 1500000, deducao |-> 67549000],
  [limite |-> 466468000, aliquota |-> 2250000, deducao |-> 39416000],
  [limite |-> Infinity,  aliquota |-> 2750000, deducao |-> 90873000] >>

\* The table that was in force before 05/2025 (first limit 2259.20, smaller
\* deductions), left in place.
TabelaAnterior == <<
  [limite |-> 225920000, aliquota |-> 0,       deducao |-> 0],
  [limite |-> 282665000, aliquota |-> 750000,  deducao |-> 16944000],
  [limite |-> 375105000, aliquota |-> 1500000, deducao |-> 38144000],
  [limite |-> 466468000, aliquota |-> 2250000, deducao |-> 66277000],
  [limite |-> Infinity,  aliquota |-> 2750000, deducao |-> 89600000] >>

\* const TABELA_IRRF_052025 = [ ... ]: the binding is constant, the array and
\* its objects are ordinary mutable ones, shared by every request.
TabelaInicial == <<
  [limite |-> 242880000, aliquota |-> 0,       deducao |-> 0],
  [limite |-> 282665000, aliquota |-> 750000,  deducao |-> 18216000],
  [limite |-> 375105000, aliquota |-> 1500000, deducao |-> 39416000],
  [limite |-> 466468000, aliquota |-> 2250000, deducao |-> 67549000],
  [limite |-> Infinity,  aliquota |-> 2750000, deducao |-> 90873000] >>

\* isFiniteNumber written as a truthiness test, which turns 0 away.
isFiniteNumberSemZero(value) ==
  value.tipo = "number" /\ NumberIsFinite(value.valor) /\ value.valor # 0

\* A JSON value of the request body is [tipo, valor]: tipo is "number",
\* "string", "boolean", "null" (kept apart from the other objects because ??
\* tells it apart) or "undefined" (what reading a missing key gives).
isFiniteNumber(value) == value.tipo = "number" /\ NumberIsFinite(value.valor)

\* for (const faixa of TABELA) if (base <= faixa.limite) return faixa;
\* return the last one.  A comparison with NaN is false.
RECURSIVE PrimeiraFaixa(_, _)
PrimeiraFaixa(base, i) ==
  IF i > Len(TABELA_IRRF_052025) THEN TABELA_IRRF_052025[Len(TABELA_IRRF_052025)]
  ELSE IF base # NaN /\ base <= TABELA_IRRF_052025[i].limite THEN TABELA_IRRF_052025[i]
  ELSE PrimeiraFaixa(base, i + 1)

\* escolherFaixa with the limits taken as exclusive (base < faixa.limite).
escolherFaixaExclusiva(base) ==
  LET abaixo == { i \in 1..Len(TABELA_IRRF_052025) :
                    base # NaN /\ base < TABELA_IRRF_052025[i].limite }
  IN  IF abaixo = {} THEN TABELA_IRRF_052025[Len(TABELA_IRRF_052025)]
      ELSE TABELA_IRRF_052025[CHOOSE i \in abaixo : \A j \in abaixo : i <= j]

escolherFaixa(base) == PrimeiraFaixa(base, 1)

----------------------------------------------------------------------------
(* Reading the request body (app.js 272-279) *)

undefined == [tipo |-> "undefined", valor |-> 0]

Campo(body, chave) == IF chave \in DOMAIN body THEN body[chave] ELSE undefined

\* a ?? b
Nullish(a, b) == IF a.tipo \in {"null", "undefined"} THEN b ELSE a

\* const { rendimento_tributavel, previdencia_oficial, quantidade_dependentes }
\*   = req.body || {};
\* const pensao_alimenticia =
\*   (req.body && (req.body.pensao_alimenticia ?? req.body['pensao_alimenticia '])) ?? 0;
Entradas(body) ==
  [rendimento_tributavel  |-> Campo(body, "rendimento_tributavel"),
   previdencia_oficial    |-> Campo(body, "previdencia_oficial"),
   quantidade_dependentes |-> Campo(body, "quantidade_dependentes"),
   pensao_alimenticia     |->
     Nullish(Nullish(Campo(body, "pensao_alimenticia"),
                     Campo(body, "pensao_alimenticia ")),
             [tipo |-> "number", valor |-> 0])]

----------------------------------------------------------------------------
(* Validation (app.js 282-295) *)

ERRO_CAMPOS == "Campos invalidos: envie numeros em rendimento_tributavel, previdencia_oficial, quantidade_dependentes e pensao_alimenticia."
ERRO_NEGATIVOS == "rendimento_tributavel, previdencia_oficial e pensao_alimenticia nao podem ser negativos."
ERRO_DEPENDENTES == "quantidade_dependentes deve ser inteiro nao negativo."

\* Number.isInteger on a number
NumberIsInteger(x) == NumberIsFinite(x) /\ x % 100000 = 0

\* Validacao without Number.isInteger in the third check.
ValidacaoSemInteiro(e) ==
  IF \/ ~isFiniteNumber(e.rendimento_tributavel)
     \/ ~isFiniteNumber(e.previdencia_oficial)
     \/ ~isFiniteNumber(e.quantidade_dependentes)
     \/ ~isFiniteNumber(e.pensao_alimenticia)
  THEN ERRO_CAMPOS
  ELSE IF \/ e.rendimento_tributavel.valor < 0
          \/ e.previdencia_oficial.valor < 0
          \/ e.pensao_alimenticia.valor < 0
  THEN ERRO_NEGATIVOS
  ELSE IF e.quantidade_dependentes.valor < 0
  THEN ERRO_DEPENDENTES
  ELSE ""

\* The message of the first check that fails, "" when all pass.
Validacao(e) ==
  IF \/ ~isFiniteNumber(e.rendimento_tributavel)
     \/ ~isFiniteNumber(e.previdencia_oficial)
     \/ ~isFiniteNumber(e.quantidade_dependentes)
     \/ ~isFiniteNumber(e.pensao_alimenticia)
  THEN ERRO_CAMPOS
  ELSE IF \/ e.rendimento_tributavel.valor < 0
          \/ e.previdencia_oficial.valor < 0
          \/ e.pensao_alimenticia.valor < 0
  THEN ERRO_NEGATIVOS
  ELSE IF \/ ~NumberIsInteger(e.quantidade_dependentes.valor)
          \/ e.quantidade_dependentes.valor < 0
  THEN ERRO_DEPENDENTES
  ELSE ""

----------------------------------------------------------------------------
(* The arithmetic (app.js 297-333; 69-99 in version 1) *)

\* quantidade_dependentes * DEDUCAO_POR_DEPENDENTE, the count being an integer
VezesDependente(quantidade) ==
  IF quantidade >= Enorme THEN Enorme
  ELSE (quantidade \div 100000) * DEDUCAO_POR_DEPENDENTE

\* base * (aliquota / 100): base is a whole number of cents (it comes out of
\* round2) and the rates of the table are whole tenths of a percent, so the
\* product is a whole number of hundred-thousandths.  Infinity * 0 is NaN.
\* 27.5 / 100 is the double 0.275 + 0.4 / 2^54, and its product by
\* 2^45 + j / 128 is 4953959590107546 + 1.1 * j steps of 1/512 and a little
\* more, which rounds to the nearest step, a half going up: 465270 steps
\* (908.73) and those of j above the first double of the tax's scale.
VezesAliquota(base, aliquota) ==
  IF base = NaN THEN NaN
  ELSE IF ~NumberIsFinite(base) THEN (IF aliquota = 0 THEN NaN ELSE base)
  ELSE IF NaEscala45(base) /\ aliquota = 2750000
       THEN Valor43(465270 + (11 * Indice45(base) + 5) \div 10)
  ELSE (base \div 1000) * (aliquota \div 10000)

\* The bases of the model's inputs, and of its comparisons of bases, at which
\* base * (aliquota / 100) - deducao is exactly half a cent above a cent in
\* decimal while the double the expression evaluates to lies below that half:
\* 2429.00 * (7.5 / 100) - 182.16 is 0.014999999999986358, and round2 gives 0.01.
\* At every other half-cent base of the model's inputs the double lies at or
\* above the half and round2 rounds up.
MeioCentavoAbaixo ==
  { 242900000, 246220000, 276220000, 284530000, 284990000, 295570000,
    299270000, 300250000, 314530000, 319990000, 321270000, 329990000,
    349990000, 351270000, 359990000, 546420000,
    282660000, 282670000, 375090000 }

\* let valor_irrf = (base * (aliquota / 100)) - deducao;
\* if (!Number.isFinite(valor_irrf)) valor_irrf = 0;
\* if (valor_irrf < 0) valor_irrf = 0;
\* valor_irrf = round2(valor_irrf);
valorIrrf(base, faixa) ==
  LET bruto  == Menos(VezesAliquota(base, faixa.aliquota), faixa.deducao)
      finito == IF ~NumberIsFinite(bruto) THEN 0 ELSE bruto
      piso   == IF finito < 0 THEN 0 ELSE finito
  IN  IF piso % 1000 = 500 /\ base \in MeioCentavoAbaixo
      THEN 1000 * (piso \div 1000)
      ELSE round2(piso)

\* 0.133145 * rendimento_tributavel, exactly: <<whole, millionths>>, the
\* product being whole + millionths / 1000000 hundred-thousandths.  The
\* factors are split so that no partial product passes 2^31.
coeficienteVezes(rendimento) ==
  LET q  == rendimento \div 1000000
      r1 == (rendimento % 1000000) \div 1000
      r0 == rendimento % 1000
      b  == 133145 * r1
      c  == 1000 * (b % 1000) + 133145 * r0
  IN  << 133145 * q + (b \div 1000) + (c \div 1000000), c % 1000000 >>

\* round2(978.62 - (0.133145 * rendimento_tributavel)) for a finite income.
\* With a fraction left the difference lies strictly between two whole
\* hundred-thousandths and is never half a cent.  Without one, it is half a
\* cent only at 7000.00, where the double is 46.604999999999905 and round2
\* gives 46.60.
reducaoFormula(rendimento) ==
  LET p == coeficienteVezes(rendimento)
      k == 97862000 - p[1]
  IN  IF p[2] > 0 THEN 1000 * ((k + 499) \div 1000)
      ELSE IF k % 1000 = 500 THEN 1000 * (k \div 1000)
      ELSE round2(k)

\* Deducoes with the simplified minimum added to the sum instead of
\* replacing it.
DeducoesSomaDuasVezes(rt, po, qd, pa) ==
  LET deducao_dependentes == round2(VezesDependente(qd))
      soma_deducoes == round2(Mais(Mais(po, deducao_dependentes), round2(pa)))
      deducao_total_aplicada ==
        round2(Mais(soma_deducoes, DESCONTO_SIMPLIFICADO_MINIMO))
  IN  [deducao_dependentes       |-> deducao_dependentes,
       soma_deducoes             |-> soma_deducoes,
       deducao_total_aplicada    |-> deducao_total_aplicada,
       simplificado_minimo_usado |-> DESCONTO_SIMPLIFICADO_MINIMO > soma_deducoes,
       base_liquida_irrf         |-> round2(Menos(rt, deducao_total_aplicada))]

\* Deducoes with the flag also raised when the sum equals the minimum (>=).
DeducoesMinimoOuIgual(rt, po, qd, pa) ==
  LET deducao_dependentes == round2(VezesDependente(qd))
      soma_deducoes == round2(Mais(Mais(po, deducao_dependentes), round2(pa)))
      deducao_total_aplicada ==
        round2(MathMax(soma_deducoes, DESCONTO_SIMPLIFICADO_MINIMO))
  IN  [deducao_dependentes       |-> deducao_dependentes,
       soma_deducoes             |-> soma_deducoes,
       deducao_total_aplicada    |-> deducao_total_aplicada,
       simplificado_minimo_usado |-> DESCONTO_SIMPLIFICADO_MINIMO >= soma_deducoes,
       base_liquida_irrf         |-> round2(Menos(rt, deducao_total_aplicada))]

\* Deducoes with the net base kept from going below zero.
DeducoesBaseNaoNegativa(rt, po, qd, pa) ==
  LET deducao_dependentes == round2(VezesDependente(qd))
      soma_deducoes == round2(Mais(Mais(po, deducao_dependentes), round2(pa)))
      deducao_total_aplicada ==
        round2(MathMax(soma_deducoes, DESCONTO_SIMPLIFICADO_MINIMO))
  IN  [deducao_dependentes       |-> deducao_dependentes,
       soma_deducoes             |-> soma_deducoes,
       deducao_total_aplicada    |-> deducao_total_aplicada,
       simplificado_minimo_usado |-> DESCONTO_SIMPLIFICADO_MINIMO > soma_deducoes,
       base_liquida_irrf         |->
         MathMax(0, round2(Menos(rt, deducao_total_aplicada)))]

\* Deducoes with the alimony left out of the sum of the legal deductions.
DeducoesSemPensao(rt, po, qd, pa) ==
  LET deducao_dependentes == round2(VezesDependente(qd))
      soma_deducoes == round2(Mais(po, deducao_dependentes))
      deducao_total_aplicada ==
        round2(MathMax(soma_deducoes, DESCONTO_SIMPLIFICADO_MINIMO))
  IN  [deducao_dependentes       |-> deducao_dependentes,
       soma_deducoes             |-> soma_deducoes,
       deducao_total_aplicada    |-> deducao_total_aplicada,
       simplificado_minimo_usado |-> DESCONTO_SIMPLIFICADO_MINIMO > soma_deducoes,
       base_liquida_irrf         |-> round2(Menos(rt, deducao_total_aplicada))]

\* Deducoes with the net base taken from the sum of the legal deductions
\* instead of the deduction applied.
DeducoesBasePelaSoma(rt, po, qd, pa) ==
  LET deducao_dependentes == round2(VezesDependente(qd))
      soma_deducoes == round2(Mais(Mais(po, deducao_dependentes), round2(pa)))
      deducao_total_aplicada ==
        round2(MathMax(soma_deducoes, DESCONTO_SIMPLIFICADO_MINIMO))
  IN  [deducao_dependentes       |-> deducao_dependentes,
       soma_deducoes             |-> soma_deducoes,
       deducao_total_aplicada    |-> deducao_total_aplicada,
       simplificado_minimo_usado |-> DESCONTO_SIMPLIFICADO_MINIMO > soma_deducoes,
       base_liquida_irrf         |-> round2(Menos(rt, soma_deducoes))]

\* Lines 298-305: the deductions and the net base.
Deducoes(rt, po, qd, pa) ==
  LET deducao_dependentes == round2(VezesDependente(qd))
      soma_deducoes == round2(Mais(Mais(po, deducao_dependentes), round2(pa)))
      deducao_total_aplicada ==
        round2(MathMax(soma_deducoes, DESCONTO_SIMPLIFICADO_MINIMO))
  IN  [deducao_dependentes       |-> deducao_dependentes,
       soma_deducoes             |-> soma_deducoes,
       deducao_total_aplicada    |-> deducao_total_aplicada,
       simplificado_minimo_usado |-> DESCONTO_SIMPLIFICADO_MINIMO > soma_deducoes,
       base_liquida_irrf         |-> round2(Menos(rt, deducao_total_aplicada))]

\* Lines 308-316: the bracket and the tax.
Imposto(base) ==
  LET faixa == escolherFaixa(base)
  IN  [aliquota_irrf           |-> faixa.aliquota,
       deducao_conforme_tabela |-> faixa.deducao,
       valor_irrf              |-> valorIrrf(base, faixa)]

\* ReducaoV2 with the reduction reported left as the formula gives it, and
\* only the reduction applied limited to the tax.
ReducaoV2RelataFormula(rt, valor_irrf) ==
  LET ramo == IF rt <= 500000000 THEN round2(MathMin(valor_irrf, 31289000))
              ELSE IF rt <= 735000000 THEN reducaoFormula(rt)
              ELSE 0
      zerada == IF valor_irrf = 0 THEN 0 ELSE ramo
      reducao_pl_formula == round2(MathMax(0, zerada))
      reducao_pl_aplicada == MathMax(0, MathMin(reducao_pl_formula, valor_irrf))
  IN  [reducao_pl_formula  |-> reducao_pl_formula,
       reducao_pl_aplicada |-> reducao_pl_aplicada,
       valor_irrf_apos_pl_1087_25 |-> round2(Menos(valor_irrf, reducao_pl_aplicada))]

\* ReducaoV2 with the reduction never limited to the tax.
ReducaoV2SemLimite(rt, valor_irrf) ==
  LET ramo == IF rt <= 500000000 THEN round2(MathMin(valor_irrf, 31289000))
              ELSE IF rt <= 735000000 THEN reducaoFormula(rt)
              ELSE 0
      zerada == IF valor_irrf = 0 THEN 0 ELSE ramo
      reducao_pl_formula == round2(MathMax(0, zerada))
      reducao_pl_aplicada == MathMax(0, reducao_pl_formula)
  IN  [reducao_pl_formula  |-> reducao_pl_formula,
       reducao_pl_aplicada |-> reducao_pl_aplicada,
       valor_irrf_apos_pl_1087_25 |-> round2(Menos(valor_irrf, reducao_pl_aplicada))]

\* Lines 319-333 of version 2: the PL 1087/25 reduction and the final tax.
ReducaoV2(rt, valor_irrf) ==
  LET ramo == IF rt <= 500000000 THEN round2(MathMin(valor_irrf, 31289000))
              ELSE IF rt <= 735000000 THEN reducaoFormula(rt)
              ELSE 0
      zerada == IF valor_irrf = 0 THEN 0 ELSE ramo
      reducao_pl_formula == round2(MathMax(0, MathMin(zerada, valor_irrf)))
      reducao_pl_aplicada == MathMax(0, MathMin(reducao_pl_formula, valor_irrf))
  IN  [reducao_pl_formula  |-> reducao_pl_formula,
       reducao_pl_aplicada |-> reducao_pl_aplicada,
       valor_irrf_apos_pl_1087_25 |-> round2(Menos(valor_irrf, reducao_pl_aplicada))]

\* ReducaoV1 with Math.min left out: 312.89 whatever the tax.
ReducaoV1SemMin(rt, valor_irrf) ==
  LET ramo == IF rt <= 500000000 THEN round2(31289000)
              ELSE IF rt > 500000000 /\ rt <= 735000000 THEN reducaoFormula(rt)
              ELSE round2(0)
      reducao_pl_1087_25 == MathMax(0, ramo)
  IN  [reducao_pl_1087_25 |-> reducao_pl_1087_25,
       valor_irrf_apos_pl_1087_25 |-> round2(Menos(valor_irrf, reducao_pl_1087_25))]

\* Lines 91-99 of version 1.
ReducaoV1(rt, valor_irrf) ==
  LET ramo == IF rt <= 500000000 THEN round2(31289000)
              ELSE IF rt > 500000000 /\ rt <= 735000000 THEN reducaoFormula(rt)
              ELSE round2(0)
      reducao_pl_1087_25 == MathMax(0, MathMin(ramo, valor_irrf))
  IN  [reducao_pl_1087_25 |-> reducao_pl_1087_25,
       valor_irrf_apos_pl_1087_25 |-> round2(Menos(valor_irrf, reducao_pl_1087_25))]

\* All the locals of a request that passed validation.
CalculoV2(e) ==
  LET rt == e.rendimento_tributavel.valor
      d  == Deducoes(rt, e.previdencia_oficial.valor,
                     e.quantidade_dependentes.valor, e.pensao_alimenticia.valor)
      i  == Imposto(d.base_liquida_irrf)
  IN  d @@ i @@ ReducaoV2(rt, i.valor_irrf)

CalculoV1(e) ==
  LET rt == e.rendimento_tributavel.valor
      d  == Deducoes(rt, e.previdencia_oficial.valor,
                     e.quantidade_dependentes.valor, e.pensao_alimenticia.valor)
      i  == Imposto(d.base_liquida_irrf)
  IN  d @@ i @@ ReducaoV1(rt, i.valor_irrf)

----------------------------------------------------------------------------
(* The response (app.js 336-477; 101-121 in version 1) *)

MENSAGEM_LIMITE == "A deducao prevista na PL 1085/25 nao se aplica porque o rendimento tributavel ultrapassa R$ 7.350,00."

\* Etapa with the ordinal counted from 0, as the index in the array is.
EtapaOrdemDoIndice(ordem, titulo, descricao, formula, valores, resultado) ==
  [ordem |-> ordem - 1, titulo |-> titulo, descricao |-> descricao,
   formula |-> formula, valores |-> valores, resultado |-> resultado]

\* One object of the etapas array.
Etapa(ordem, titulo, descricao, formula, valores, resultado) ==
  [ordem |-> ordem, titulo |-> titulo, descricao |-> descricao,
   formula |-> formula, valores |-> valores, resultado |-> resultado]

\* const memoria_calculo = { entradas, etapas }
memoriaCalculo(e, c) ==
  LET rt == e.rendimento_tributavel.valor
      po == e.previdencia_oficial.valor
      qd == e.quantidade_dependentes.valor
      pa == e.pensao_alimenticia.valor
      tabela == round2(c.deducao_conforme_tabela)
  IN
  [entradas |->
     [rendimento_tributavel  |-> round2(rt),
      previdencia_oficial    |-> round2(po),
      quantidade_dependentes |-> qd,
      pensao_alimenticia     |-> round2(pa)],
   etapas |-> <<
     Etapa(1, "Calculo da deducao por dependentes",
           "Quantidade de dependentes multiplicada pelo valor de deducao por dependente.",
           "quantidade_dependentes * 189,59",
           [quantidade_dependentes |-> qd,
            valor_por_dependente |-> DEDUCAO_POR_DEPENDENTE],
           c.deducao_dependentes),
     Etapa(2, "Calculo das deducoes legais",
           "Soma da Previdencia Oficial, pensao alimenticia e a deducao por dependentes.",
           "previdencia_oficial + pensao_alimenticia + deducao_dependentes",
           [previdencia_oficial |-> round2(po),
            pensao_alimenticia |-> round2(pa),
            deducao_dependentes |-> c.deducao_dependentes],
           c.soma_deducoes),
     Etapa(3, "Escolha da deducao aplicada",
           "Maior valor entre soma das deducoes legais e o desconto simplificado minimo.",
           "max(soma_deducoes, 607,20)",
           [soma_deducoes |-> c.soma_deducoes,
            desconto_simplificado_minimo |-> DESCONTO_SIMPLIFICADO_MINIMO,
            utilizou_simplificado_minimo |-> c.simplificado_minimo_usado],
           c.deducao_total_aplicada),
     Etapa(4, "Base liquida do IRRF",
           "Rendimento tributavel menos a deducao aplicada.",
           "rendimento_tributavel - deducao_total_aplicada",
           [rendimento_tributavel |-> round2(rt),
            deducao_total_aplicada |-> c.deducao_total_aplicada],
           c.base_liquida_irrf),
     Etapa(5, "Faixa da tabela progressiva",
           "Determinacao da aliquota e parcela a deduzir conforme a base liquida.",
           "tabela progressiva mensal 05/2025",
           [base_liquida_irrf |-> c.base_liquida_irrf,
            aliquota |-> c.aliquota_irrf,
            deducao_conforme_tabela |-> tabela],
           [aliquota |-> c.aliquota_irrf, deducao |-> tabela]),
     Etapa(6, "Imposto pela tabela progressiva",
           "Calculo do IR pela base liquida.",
           "base_liquida_irrf * (aliquota/100) - deducao_conforme_tabela",
           [base_liquida_irrf |-> c.base_liquida_irrf,
            aliquota |-> c.aliquota_irrf,
            deducao_conforme_tabela |-> tabela],
           c.valor_irrf),
     Etapa(7, "Reducao PL 1087/25 (regra aplicada)",
           "Calculo da reducao conforme a faixa de rendimento e limitacoes legais, limitada ao imposto devido.",
           IF rt <= 500000000 THEN "min(valor_irrf, 312,89)"
           ELSE IF rt <= 735000000
                THEN "max(0, min(978,62 - 0,133145 * rendimento_tributavel, valor_irrf))"
                ELSE "0",
           [rendimento_tributavel |-> round2(rt),
            valor_irrf |-> c.valor_irrf,
            limite_superior |-> 735000000],
           c.reducao_pl_formula),
     Etapa(8, "Reducao aplicada ao imposto",
           "Limitacao da reducao ao imposto devido (nao negativa).",
           "min(max(reducao_pl, 0), valor_irrf)",
           [reducao_pl_calculada |-> c.reducao_pl_formula,
            valor_irrf |-> c.valor_irrf],
           c.reducao_pl_aplicada),
     Etapa(9, "IRRF apos PL 1087/25",
           "Imposto final apos aplicar a reducao da PL, quando aplicavel.",
           "valor_irrf - reducao_pl_aplicada",
           [valor_irrf |-> c.valor_irrf,
            reducao_pl_aplicada |-> c.reducao_pl_aplicada],
           c.valor_irrf_apos_pl_1087_25) >>]

\* Cabecalho with the itemized figures spread unconditionally.
CabecalhoSempreItemizado(e, c) ==
  [rendimento_tributavel |-> e.rendimento_tributavel.valor]
  @@ [previdencia_oficial        |-> e.previdencia_oficial.valor,
      quantidade_dependentes     |-> e.quantidade_dependentes.valor,
      pensao_alimenticia         |-> round2(e.pensao_alimenticia.valor),
      valor_deducoes_dependentes |-> round2(c.deducao_dependentes)]
  @@ (IF c.simplificado_minimo_usado
      THEN [desconto_simplificado_aplicado |-> DESCONTO_SIMPLIFICADO_MINIMO]
      ELSE Vazio)
  @@ [base_liquida_irrf       |-> round2(c.base_liquida_irrf),
      aliquota_irrf           |-> c.aliquota_irrf,
      deducao_conforme_tabela |-> round2(c.deducao_conforme_tabela),
      valor_irrf              |-> c.valor_irrf]

\* The fields both versions build the same way (lines 456-467, 102-113):
\* the itemized figures unless the simplified minimum was used, the
\* simplified minimum otherwise.
Cabecalho(e, c) ==
  [rendimento_tributavel |-> e.rendimento_tributavel.valor]
  @@ (IF ~c.simplificado_minimo_usado
      THEN [previdencia_oficial        |-> e.previdencia_oficial.valor,
            quantidade_dependentes     |-> e.quantidade_dependentes.valor,
            pensao_alimenticia         |-> round2(e.pensao_alimenticia.valor),
            valor_deducoes_dependentes |-> round2(c.deducao_dependentes)]
      ELSE Vazio)
  @@ (IF c.simplificado_minimo_usado
      THEN [desconto_simplificado_aplicado |-> DESCONTO_SIMPLIFICADO_MINIMO]
      ELSE Vazio)
  @@ [base_liquida_irrf       |-> round2(c.base_liquida_irrf),
      aliquota_irrf           |-> c.aliquota_irrf,
      deducao_conforme_tabela |-> round2(c.deducao_conforme_tabela),
      valor_irrf              |-> c.valor_irrf]

\* RespostaV2 with the threshold tested on the net base instead of the income.
RespostaV2LimitePelaBase(e, c) ==
  Cabecalho(e, c)
  @@ [reducao_pl_1087_25 |-> c.reducao_pl_formula]
  @@ (IF c.base_liquida_irrf > 735000000
      THEN [mensagem |-> MENSAGEM_LIMITE]
      ELSE [valor_irrf_apos_pl_1087_25 |-> c.valor_irrf_apos_pl_1087_25])
  @@ [memoria_calculo |-> memoriaCalculo(e, c)]

\* const resposta = { ... } of version 2 (lines 455-475)
RespostaV2(e, c) ==
  Cabecalho(e, c)
  @@ [reducao_pl_1087_25 |-> c.reducao_pl_formula]
  @@ (IF e.rendimento_tributavel.valor > 735000000
      THEN [mensagem |-> MENSAGEM_LIMITE]
      ELSE [valor_irrf_apos_pl_1087_25 |-> c.valor_irrf_apos_pl_1087_25])
  @@ [memoria_calculo |-> memoriaCalculo(e, c)]

\* const resposta = { ... } of version 1 (lines 101-119)
RespostaV1(e, c) ==
  Cabecalho(e, c)
  @@ (IF e.rendimento_tributavel.valor > 735000000
      THEN [mensagem |-> MENSAGEM_LIMITE]
      ELSE [reducao_pl_1087_25 |-> c.reducao_pl_1087_25,
            valor_irrf_apos_pl_1087_25 |-> c.valor_irrf_apos_pl_1087_25])

\* HandlerV2 with the third check answering with the message of the second.
HandlerV2MensagemTrocada(body) ==
  LET e == Entradas(body)
      erro == Validacao(e)
  IN  IF erro # ""
      THEN [status |-> 400,
            resposta |-> [erro |-> IF erro = ERRO_DEPENDENTES THEN ERRO_NEGATIVOS ELSE erro],
            calc |-> Vazio]
      ELSE [status |-> 200, resposta |-> RespostaV2(e, CalculoV2(e)),
            calc |-> CalculoV2(e)]

\* The whole handler: what it answers to a body and the locals it computed.
\* A rejected request returns before any local is computed.
HandlerV2(body) ==
  LET e == Entradas(body)
      erro == Validacao(e)
  IN  IF erro # ""
      THEN [status |-> 400, resposta |-> [erro |-> erro], calc |-> Vazio]
      ELSE [status |-> 200, resposta |-> RespostaV2(e, CalculoV2(e)),
            calc |-> CalculoV2(e)]

HandlerV1(body) ==
  LET e == Entradas(body)
      erro == Validacao(e)
  IN  IF erro # ""
      THEN [status |-> 400, resposta |-> [erro |-> erro], calc |-> Vazio]
      ELSE [status |-> 200, resposta |-> RespostaV1(e, CalculoV1(e)),
            calc |-> CalculoV1(e)]

----------------------------------------------------------------------------
(* Request bodies *)

MaxPassos == 24
MaxDependentes == 3

Num(v) == [tipo |-> "number", valor |-> v]

\* What a JSON body can hold that is not a finite number: a string, a
\* boolean, null, and the infinities (JSON.parse reads 1e999 as Infinity).
NaoNumeros ==
  { [tipo |-> "string", valor |-> 0], [tipo |-> "boolean", valor |-> 1],
    [tipo |-> "null", valor |-> 0], Num(Infinity), Num(-Infinity) }

\* Incomes: a regular ladder of 375.25, the incomes around every threshold
\* of the handler (the simplified minimum, the bracket limits plus the
\* minimum, 5000, 7000, 7350), incomes given to a fraction of a cent, an
\* income whose hundredfold overflows, and negative ones.
Rendimentos ==
  { k * 37525000 : k \in 0..MaxPassos } \cup
  { 60720000, 200000000, 303600000, 303601000, 303620000, 343385000,
    343386000, 435825000, 435826000, 500000000, 500000400, 500001000,
    527188000, 527189000, 700000000, 735000000, 735000400, 735001000,
    800000000, Enorme, -100000, -400 }

Previdencias ==
  { 0, 10000000, 60719000, 60719600, 60720000, 60721000, 75000000, Enorme,
    -100000 }

Dependentes == { d * 100000 : d \in 0..MaxDependentes } \cup { 250000, -100000 }

Pensoes == { 0, 400, 600, 30000000, -100000 }

Corpo3(rt, po, qd) ==
  [rendimento_tributavel |-> rt, previdencia_oficial |-> po,
   quantidade_dependentes |-> qd]

\* Bodies whose fields are all numbers, with and without the alimony key.
CorposNumericos ==
  { Corpo3(Num(rt), Num(po), Num(qd)) @@ [pensao_alimenticia |-> Num(pa)] :
      rt \in Rendimentos, po \in Previdencias, qd \in Dependentes, pa \in Pensoes }
  \cup
  { Corpo3(Num(rt), Num(po), Num(qd)) :
      rt \in Rendimentos, po \in Previdencias, qd \in Dependentes }

\* Bodies that carry the alimony under the key with a trailing space, alone
\* or next to the canonical key (which may hold null).
CorposChaveAlternativa ==
  LET bases == { Corpo3(Num(rt), Num(po), Num(qd)) :
                   rt \in { 200000000, 500000000, 650000000, 800000000 },
                   po \in { 0, 75000000 }, qd \in { 0, 200000 } }
      alternativas == { Num(pa) : pa \in Pensoes } \cup NaoNumeros
      canonicas == { Num(0), Num(30000000), [tipo |-> "null", valor |-> 0] }
  IN  { b @@ ("pensao_alimenticia " :> a) : b \in bases, a \in alternativas }
      \cup
      { b @@ ("pensao_alimenticia " :> a) @@ [pensao_alimenticia |-> c] :
          b \in bases, a \in alternativas, c \in canonicas }

Chaves ==
  { "rendimento_tributavel", "previdencia_oficial", "quantidade_dependentes",
    "pensao_alimenticia" }

\* Bodies with one field of the wrong type or missing, and the empty body.
CorposMalTipados ==
  LET bases == { Corpo3(Num(rt), Num(po), Num(qd)) @@ [pensao_alimenticia |-> Num(pa)] :
                   rt \in { 200000000, 500000000, 800000000, -100000 },
                   po \in { 0, 75000000 }, qd \in { 0, 200000, 250000 },
                   pa \in { 0, 30000000 } }
  IN  { [b EXCEPT ![k] = v] : b \in bases, k \in Chaves, v \in NaoNumeros }
      \cup
      { [j \in (Chaves \ {k}) |-> b[j]] : b \in bases, k \in Chaves }
      \cup { Vazio }

Corpos == CorposNumericos \cup CorposChaveAlternativa \cup CorposMalTipados

----------------------------------------------------------------------------
(* The cors middleware (app.js 236-240, 8-12 in version 1), which runs     *)
(* before every route.                                                     *)

\* cors({ origin: [ 'https://ewandrotab.github.io' ] })
ORIGENS_PERMITIDAS == { "https://ewandrotab.github.io" }

\* A request that carries no Origin header.
SemOrigem == ""

\* The headers cors sets when options.origin is an array: the request's
\* origin is echoed in Access-Control-Allow-Origin when the array holds it,
\* the header is left out otherwise; Vary: Origin in both cases.
cors(origin) ==
  IF origin \in ORIGENS_PERMITIDAS
  THEN ("Access-Control-Allow-Origin" :> origin) @@ ("Vary" :> "Origin")
  ELSE ("Vary" :> "Origin")

\* Access-Control-Allow-Methods of the answer to a preflight (OPTIONS),
\* which cors ends itself with status 204 before any route runs: the
\* library's default, the options naming no methods.
METODOS == "GET,HEAD,PUT,PATCH,POST,DELETE"

\* The origins of the requests: none, the page of the list, the Vite
\* development server of the frontend, the API's own port, and two others.
Origens ==
  { SemOrigem, "https://ewandrotab.github.io", "http://localhost:5173",
    "http://127.0.0.1:5173", "http://localhost:3000", "https://example.org" }

\* The middleware's step of a request.
Cors(origin) ==
  /\ origem' = origin
  /\ cabecalhos' = cors(origin)

----------------------------------------------------------------------------
(* The server *)

Construido ==
  /\ versao \in {1, 2}
  /\ TABELA_IRRF_052025 = TabelaInicial
  /\ corpo = Vazio
  /\ status = 0
  /\ resposta = Vazio
  /\ calc = Vazio
  /\ historico = Vazio
  /\ origem = SemOrigem
  /\ cabecalhos = Vazio
  /\ par = Vazio
  /\ FormularioInicial

Init == Construido /\ ambiente = "producao"

\* The handler with every bracket object's deducao overwritten on the way.
TabelaZerada ==
  TABELA_IRRF_052025' =
    [i \in DOMAIN TABELA_IRRF_052025 |-> [TABELA_IRRF_052025[i] EXCEPT !.deducao = 0]]

\* The handler and escolherFaixa only read the table: no statement of
\* either assigns to the array or to a bracket object.
TabelaSoLida == UNCHANGED TABELA_IRRF_052025

\* The handler runs to its return on the body it is given; Node runs one
\* handler at a time, so a request is taken only when none is being answered.
Atende(body, r) ==
  /\ corpo' = body
  /\ status' = r.status
  /\ resposta' = r.resposta
  /\ calc' = r.calc
  /\ TabelaSoLida
  /\ UNCHANGED versao
  /\ UNCHANGED alheias

PostCalcularIrrfV1 ==
  /\ versao = 1
  /\ status = 0
  /\ \E body \in Corpos : Atende(body, HandlerV1(body))
  /\ Cors(SemOrigem)
  /\ UNCHANGED historico

PostCalcularIrrfV2 ==
  /\ versao = 2
  /\ status = 0
  /\ \E body \in Corpos : Atende(body, HandlerV2(body))
  /\ Cors(SemOrigem)
  /\ UNCHANGED historico

\* The response is sent; the request, its locals and its response object are
\* dropped, and the server waits for the next request.
Conclui ==
  /\ status # 0
  /\ corpo' = Vazio
  /\ status' = 0
  /\ resposta' = Vazio
  /\ calc' = Vazio
  /\ origem' = SemOrigem
  /\ cabecalhos' = Vazio
  /\ UNCHANGED <<versao, TABELA_IRRF_052025, historico>>
  /\ UNCHANGED alheias

Next == PostCalcularIrrfV1 \/ PostCalcularIrrfV2 \/ Conclui

Spec == Init /\ [][Next]_vars

----------------------------------------------------------------------------
(* Sessions: a few bodies, each sent any number of times in any order, with *)
(* the first answer to each body remembered.                                *)

CorposSessao ==
  { Corpo3(Num(500000000), Num(75000000), Num(200000)) @@ [pensao_alimenticia |-> Num(0)],
    Corpo3(Num(200000000), Num(0), Num(0)),
    Corpo3(Num(800000000), Num(0), Num(0)),
    Corpo3(Num(700000000), Num(10000000), Num(100000)) @@ ("pensao_alimenticia " :> Num(30000000)),
    Corpo3(Num(500000000), Num(0), Num(250000)),
    Corpo3(Num(500000000), [tipo |-> "string", valor |-> 0], Num(0)) }

MaxVezes == 2

\* The first answer to each body, and how many times the body was answered
\* (counted up to MaxVezes).
Lembra(body, r) ==
  historico' =
    IF body \in DOMAIN historico
    THEN [historico EXCEPT ![body].vezes = IF @ < MaxVezes THEN @ + 1 ELSE @]
    ELSE historico @@ (body :> [status |-> r.status, resposta |-> r.resposta, vezes |-> 1])

SessaoV1 ==
  /\ versao = 1
  /\ status = 0
  /\ \E body \in CorposSessao :
       Atende(body, HandlerV1(body)) /\ Lembra(body, HandlerV1(body))
  /\ Cors(SemOrigem)

SessaoV2 ==
  /\ versao = 2
  /\ status = 0
  /\ \E body \in CorposSessao :
       Atende(body, HandlerV2(body)) /\ Lembra(body, HandlerV2(body))
  /\ Cors(SemOrigem)

NextSessao == SessaoV1 \/ SessaoV2 \/ Conclui

SpecSessao == Init /\ [][NextSessao]_vars

----------------------------------------------------------------------------
(* Requests from other origins: a browser first asks with OPTIONS          *)
(* (the POST carries JSON), then sends the POST.                           *)

CorposDeOutraOrigem ==
  CorposSessao \cup
  { Corpo3(Num(rt), Num(po), Num(0)) :
      rt \in { 200000000, 500000000, 650000000, 800000000 },
      po \in { 0, 75000000 } }

\* cors answers the OPTIONS itself: 204, no body, and the route never runs.
Preflight ==
  /\ status = 0
  /\ \E origin \in Origens :
       /\ origem' = origin
       /\ cabecalhos' = cors(origin) @@ ("Access-Control-Allow-Methods" :> METODOS)
  /\ corpo' = Vazio
  /\ status' = 204
  /\ resposta' = Vazio
  /\ calc' = Vazio
  /\ UNCHANGED <<versao, TABELA_IRRF_052025, historico>>
  /\ UNCHANGED alheias

PostDeOutraOrigemV1 ==
  /\ versao = 1
  /\ status = 0
  /\ \E body \in CorposDeOutraOrigem, origin \in Origens :
       Atende(body, HandlerV1(body)) /\ Cors(origin)
  /\ UNCHANGED historico

PostDeOutraOrigemV2 ==
  /\ versao = 2
  /\ status = 0
  /\ \E body \in CorposDeOutraOrigem, origin \in Origens :
       Atende(body, HandlerV2(body)) /\ Cors(origin)
  /\ UNCHANGED historico

NextCors == Preflight \/ PostDeOutraOrigemV1 \/ PostDeOutraOrigemV2 \/ Conclui

SpecCors == Init /\ [][NextCors]_vars

----------------------------------------------------------------------------
(* Requests with incomes of trillions, next to the ordinary ones. *)

MaxGrandes == 5

\* The double a JSON number of 2^45 and k cents is read as: the nearest one.
Centavos45(k) == Valor45((64 * k + 25) \div 50)

\* Incomes from 35184372091832.00 up, cent by cent.
RendimentosGrandes == { Centavos45(300000 + i) : i \in 0..MaxGrandes }

CorposGrandes ==
  { Corpo3(Num(rt), Num(po), Num(qd)) :
      rt \in RendimentosGrandes, po \in { 0, 75000000 }, qd \in { 0, 100000 } }

PostDeTrilhoesV1 ==
  /\ versao = 1
  /\ status = 0
  /\ \E body \in CorposGrandes : Atende(body, HandlerV1(body))
  /\ Cors(SemOrigem)
  /\ UNCHANGED historico

PostDeTrilhoesV2 ==
  /\ versao = 2
  /\ status = 0
  /\ \E body \in CorposGrandes : Atende(body, HandlerV2(body))
  /\ Cors(SemOrigem)
  /\ UNCHANGED historico

NextTrilhoes ==
  \/ PostCalcularIrrfV1
  \/ PostCalcularIrrfV2
  \/ PostDeTrilhoesV1
  \/ PostDeTrilhoesV2
  \/ Conclui

SpecTrilhoes == Init /\ [][NextTrilhoes]_vars

----------------------------------------------------------------------------
(* The tax as a function of the net base (app.js 308-316): two bases in    *)
(* whole cents are taken and the bracket and the tax of each computed.     *)

MaxJanela == 20

\* Net bases in whole cents: every cent up to MaxJanela cents on either side
\* of each limit of the table, and bases far from the limits, below zero
\* included.
BasesEmCentavos ==
  { 242880000 + 1000 * k : k \in -MaxJanela..MaxJanela } \cup
  { 282665000 + 1000 * k : k \in -MaxJanela..MaxJanela } \cup
  { 375105000 + 1000 * k : k \in -MaxJanela..MaxJanela } \cup
  { 466468000 + 1000 * k : k \in -MaxJanela..MaxJanela } \cup
  { -75393000, -1000, 0, 1000, 100000000, 200000000, 500000000, 639280000,
    739280000, 900000000 }

Compara ==
  /\ par = Vazio
  /\ \E b1, b2 \in BasesEmCentavos :
       /\ b1 <= b2
       /\ par' = [b1 |-> b1, b2 |-> b2,
                  i1 |-> Imposto(b1), i2 |-> Imposto(b2)]
  /\ UNCHANGED <<servidor, formulario>>

Esquece ==
  /\ par # Vazio
  /\ par' = Vazio
  /\ UNCHANGED <<servidor, formulario>>

NextImposto == Compara \/ Esquece

SpecImposto == Init /\ [][NextImposto]_vars

----------------------------------------------------------------------------
(* What the claims speak of *)

CHAVE_ALTERNATIVA == "pensao_alimenticia "

\* The key holds a finite number.
TemNumero(body, chave) ==
  /\ chave \in DOMAIN body
  /\ body[chave].tipo = "number"
  /\ NumberIsFinite(body[chave].valor)

\* The key that carries the alimony: the canonical one when the body has it,
\* else the alternate one; none when the body has neither.
ChavesDaPensao(body) ==
  IF "pensao_alimenticia" \in DOMAIN body THEN {"pensao_alimenticia"}
  ELSE IF CHAVE_ALTERNATIVA \in DOMAIN body THEN {CHAVE_ALTERNATIVA}
  ELSE {}

\* A valid input: finite non-negative income, contribution and alimony (or no
\* alimony at all), and a non-negative integer count of dependents.
EntradaValida(body) ==
  /\ \A k \in {"rendimento_tributavel", "previdencia_oficial", "quantidade_dependentes"} :
       TemNumero(body, k) /\ body[k].valor >= 0
  /\ body["quantidade_dependentes"].valor % 100000 = 0
  /\ \A k \in ChavesDaPensao(body) : TemNumero(body, k) /\ body[k].valor >= 0

Itemizados ==
  { "previdencia_oficial", "quantidade_dependentes", "pensao_alimenticia",
    "valor_deducoes_dependentes" }

\* The reduction the last request ended with, whatever the version.
ReducaoFinal ==
  IF versao = 2 THEN calc.reducao_pl_aplicada ELSE calc.reducao_pl_1087_25

----------------------------------------------------------------------------
(* C1: for every valid input the tax before the reduction is not negative, *)
(* and neither is the tax after the PL 1087/25 reduction, reported or not.  *)
C1_NaoNegativo ==
  (status # 0 /\ EntradaValida(corpo)) =>
    /\ status = 200
    /\ resposta.valor_irrf >= 0
    /\ calc.valor_irrf >= 0
    /\ calc.valor_irrf_apos_pl_1087_25 >= 0
    /\ "valor_irrf_apos_pl_1087_25" \in DOMAIN resposta =>
         resposta.valor_irrf_apos_pl_1087_25 >= 0

\* A valid request that leaves a positive tax both before and after the
\* reduction.
C1_Testemunha ==
  /\ status = 200
  /\ EntradaValida(corpo)
  /\ resposta.valor_irrf > 0
  /\ "valor_irrf_apos_pl_1087_25" \in DOMAIN resposta
  /\ resposta.valor_irrf_apos_pl_1087_25 > 0

(* C2: for every valid input the final reduction lies between 0 and the tax *)
(* before the reduction, in each of the three income branches, in both      *)
(* versions of the handler.                                                 *)
C2_ReducaoLimitada ==
  (status # 0 /\ EntradaValida(corpo)) =>
    /\ status = 200
    /\ 0 <= ReducaoFinal
    /\ ReducaoFinal <= calc.valor_irrf
    /\ "reducao_pl_1087_25" \in DOMAIN resposta =>
         (0 <= resposta.reducao_pl_1087_25 /\ resposta.reducao_pl_1087_25 <= resposta.valor_irrf)

\* An income between 5000 and 7350 whose reduction is positive and smaller
\* than the tax.
C2_Testemunha ==
  /\ status = 200
  /\ EntradaValida(corpo)
  /\ corpo.rendimento_tributavel.valor > 500000000
  /\ corpo.rendimento_tributavel.valor <= 735000000
  /\ 0 < ReducaoFinal
  /\ ReducaoFinal < calc.valor_irrf

(* C3: whenever the rounded sum of the legal deductions of a valid input is *)
(* below 607.20 the simplified path is taken: the flag is true and the     *)
(* deduction applied is 607.20 exactly.                                     *)
C3_MinimoDomina ==
  (status # 0 /\ EntradaValida(corpo)) =>
    /\ status = 200
    /\ calc.soma_deducoes < 60720000 =>
         /\ calc.simplificado_minimo_usado
         /\ calc.deducao_total_aplicada = 60720000
         /\ "desconto_simplificado_aplicado" \in DOMAIN resposta
         /\ resposta.desconto_simplificado_aplicado = 60720000

\* Deductions of 607.19, one cent short of the minimum.
C3_Testemunha ==
  /\ status = 200
  /\ EntradaValida(corpo)
  /\ calc.soma_deducoes = 60719000
  /\ calc.simplificado_minimo_usado

(* C4: a successful response has exactly one of two shapes: with the       *)
(* simplified minimum used, desconto_simplificado_aplicado = 607.20 and    *)
(* none of the four itemized fields; otherwise the four itemized fields    *)
(* and no desconto_simplificado_aplicado.                                   *)
C4_DuasFormas ==
  status = 200 =>
    IF calc.simplificado_minimo_usado
    THEN /\ "desconto_simplificado_aplicado" \in DOMAIN resposta
         /\ resposta.desconto_simplificado_aplicado = 60720000
         /\ DOMAIN resposta \cap Itemizados = {}
    ELSE /\ Itemizados \subseteq DOMAIN resposta
         /\ "desconto_simplificado_aplicado" \notin DOMAIN resposta

\* A simplified response to a request that did carry deductions.
C4_Testemunha ==
  /\ status = 200
  /\ calc.simplificado_minimo_usado
  /\ calc.soma_deducoes > 0
  /\ "desconto_simplificado_aplicado" \in DOMAIN resposta

(* C5: for every valid input with an income above 7350 the response carries *)
(* the "does not apply" message and no valor_irrf_apos_pl_1087_25, while    *)
(* valor_irrf is still the tax of the bracket the net base selects: the     *)
(* base times the rate less the table deduction, to the cent (0 when that   *)
(* is negative or not finite).                                              *)
C5_MensagemAcimaDoLimite ==
  (status # 0 /\ EntradaValida(corpo) /\ corpo.rendimento_tributavel.valor > 735000000) =>
    /\ status = 200
    /\ "mensagem" \in DOMAIN resposta
    /\ resposta.mensagem = MENSAGEM_LIMITE
    /\ "valor_irrf_apos_pl_1087_25" \notin DOMAIN resposta
    /\ "valor_irrf" \in DOMAIN resposta
    /\ \E i \in 1..Len(TabelaInicial) :
         LET f == TabelaInicial[i]
             base == resposta.base_liquida_irrf
             bruto == (base \div 1000) * (f.aliquota \div 10000) - f.deducao
         IN  /\ resposta.aliquota_irrf = f.aliquota
             /\ resposta.deducao_conforme_tabela = f.deducao
             /\ base <= f.limite
             /\ i > 1 => base > TabelaInicial[i - 1].limite
             /\ IF NumberIsFinite(base) /\ bruto >= 0
                THEN /\ resposta.valor_irrf - bruto <= 500
                     /\ bruto - resposta.valor_irrf <= 500
                ELSE resposta.valor_irrf = 0

\* An income of 7350.01 or more, taxed, with the message.
C5_Testemunha ==
  /\ status = 200
  /\ EntradaValida(corpo)
  /\ corpo.rendimento_tributavel.valor > 735000000
  /\ "mensagem" \in DOMAIN resposta
  /\ resposta.valor_irrf > 0

(* C6: a request is rejected (400) whenever one of the four fields is       *)
(* supplied with a value that is not a finite number (a string, a boolean,  *)
(* null, an infinity), and whenever one of the three required fields is     *)
(* missing.                                                                 *)
C6_RejeitaNaoNumeros ==
  (/\ status # 0
   /\ \/ \E k \in Chaves \cap DOMAIN corpo : ~TemNumero(corpo, k)
      \/ \E k \in Chaves \ {"pensao_alimenticia"} : k \notin DOMAIN corpo)
  => status = 400

(* C7: a request whose fields are all finite numbers is rejected (400) when *)
(* the income, the contribution or the alimony is negative, or the count of *)
(* dependents is negative or not an integer.                                *)
C7_RejeitaNegativos ==
  (/\ status # 0
   /\ \A k \in Chaves \ {"pensao_alimenticia"} : TemNumero(corpo, k)
   /\ \A k \in {"pensao_alimenticia", CHAVE_ALTERNATIVA} \cap DOMAIN corpo : TemNumero(corpo, k)
   /\ \/ corpo.rendimento_tributavel.valor < 0
      \/ corpo.previdencia_oficial.valor < 0
      \/ \E k \in ChavesDaPensao(corpo) : corpo[k].valor < 0
      \/ corpo.quantidade_dependentes.valor < 0
      \/ corpo.quantidade_dependentes.valor % 100000 # 0)
  => (status = 400 /\ resposta.erro \in {ERRO_NEGATIVOS, ERRO_DEPENDENTES})

\* 2.5 dependents, nothing negative: rejected.
C7_Testemunha ==
  /\ status = 400
  /\ \A k \in Chaves \ {"pensao_alimenticia"} : TemNumero(corpo, k)
  /\ \A k \in {"pensao_alimenticia", CHAVE_ALTERNATIVA} \cap DOMAIN corpo : TemNumero(corpo, k)
  /\ corpo.quantidade_dependentes.valor = 250000
  /\ corpo.rendimento_tributavel.valor >= 0
  /\ corpo.previdencia_oficial.valor >= 0
  /\ \A k \in ChavesDaPensao(corpo) : corpo[k].valor >= 0

(* C8: a validation failure is answered with status 400 and a body that     *)
(* holds only erro; the message names a constraint the input violates; no   *)
(* computed figure is in the response and no local of the arithmetic was    *)
(* computed.                                                                *)
C8_SoOErro ==
  status = 400 =>
    /\ DOMAIN resposta = {"erro"}
    /\ calc = Vazio
    /\ resposta.erro \in {ERRO_CAMPOS, ERRO_NEGATIVOS, ERRO_DEPENDENTES}
    /\ resposta.erro = ERRO_CAMPOS =>
         \/ \E k \in Chaves \ {"pensao_alimenticia"} : k \notin DOMAIN corpo
         \/ \E k \in (Chaves \cup {CHAVE_ALTERNATIVA}) \cap DOMAIN corpo : ~TemNumero(corpo, k)
    /\ resposta.erro = ERRO_NEGATIVOS =>
         \E k \in {"rendimento_tributavel", "previdencia_oficial",
                   "pensao_alimenticia", CHAVE_ALTERNATIVA} \cap DOMAIN corpo :
           TemNumero(corpo, k) /\ corpo[k].valor < 0
    /\ resposta.erro = ERRO_DEPENDENTES =>
         /\ TemNumero(corpo, "quantidade_dependentes")
         /\ \/ corpo.quantidade_dependentes.valor < 0
            \/ corpo.quantidade_dependentes.valor % 100000 # 0

\* A rejection for the count of dependents alone.
C8_Testemunha ==
  /\ status = 400
  /\ resposta.erro = ERRO_DEPENDENTES
  /\ corpo.rendimento_tributavel.valor > 0

CamposDoRegistro ==
  { "rendimento_tributavel", "base_liquida_irrf", "aliquota_irrf",
    "deducao_conforme_tabela", "valor_irrf" }
  \cup (IF versao = 2 THEN {"reducao_pl_1087_25", "memoria_calculo"} ELSE {})

(* C9: every request ends in a success (200) or in a validation failure     *)
(* (400), nothing else; a valid input always ends in a success whose body   *)
(* holds the whole output record, and never in a validation failure.        *)
C9_SoAValidacaoFalha ==
  status # 0 =>
    /\ status \in {200, 400}
    /\ EntradaValida(corpo) =>
         /\ status = 200
         /\ CamposDoRegistro \subseteq DOMAIN resposta
         /\ \/ "mensagem" \in DOMAIN resposta
            \/ {"reducao_pl_1087_25", "valor_irrf_apos_pl_1087_25"} \subseteq DOMAIN resposta
         /\ "erro" \notin DOMAIN resposta
    /\ status = 200 => DOMAIN calc # {}

\* A valid request made of zeros and no alimony key, answered with success.
C9_Testemunha ==
  /\ status = 200
  /\ EntradaValida(corpo)
  /\ corpo.rendimento_tributavel.valor = 0
  /\ corpo.previdencia_oficial.valor = 0
  /\ corpo.quantidade_dependentes.valor = 0
  /\ ChavesDaPensao(corpo) = {}

(* C10: in any sequence of requests the answer to a body is the answer the  *)
(* same body got the first time, whatever was served before or in between,  *)
(* and the only state the requests share, the table, is as it was at start. *)
C10_Deterministico ==
  /\ TABELA_IRRF_052025 = TabelaInicial
  /\ (status # 0 /\ corpo \in DOMAIN historico) =>
       /\ historico[corpo].status = status
       /\ historico[corpo].resposta = resposta

\* A body answered again after three other bodies were answered.
C10_Testemunha ==
  /\ status = 200
  /\ corpo \in DOMAIN historico
  /\ historico[corpo].vezes >= 2
  /\ Cardinality(DOMAIN historico) >= 4

\* The limits of the table that are numbers, and the last bracket.
LimitesFinitos == { 242880000, 282665000, 375105000, 466468000 }

(* C11: the bracket of a response is the first of the table, in its order, *)
(* whose limit is not below the net base; a base equal to a limit          *)
(* (2428.80, 2826.65, 3751.05, 4664.68) takes the bracket of that limit,   *)
(* not the next one, and a base above 4664.68 takes the last bracket       *)
(* (27.5%, 908.73).                                                        *)
C11_PrimeiraFaixaQueCobre ==
  status = 200 =>
    LET base == calc.base_liquida_irrf
        cobrem == { i \in 1..Len(TabelaInicial) : base <= TabelaInicial[i].limite }
        i == CHOOSE k \in cobrem : \A j \in cobrem : k <= j
    IN  /\ cobrem # {}
        /\ calc.aliquota_irrf = TabelaInicial[i].aliquota
        /\ calc.deducao_conforme_tabela = TabelaInicial[i].deducao
        /\ resposta.aliquota_irrf = TabelaInicial[i].aliquota
        /\ resposta.deducao_conforme_tabela = TabelaInicial[i].deducao
        /\ base \in LimitesFinitos => TabelaInicial[i].limite = base
        /\ base > 466468000 =>
             (calc.aliquota_irrf = 2750000 /\ calc.deducao_conforme_tabela = 90873000)

\* A net base of exactly 2826.65, taxed at 7.5%.
C11_Testemunha ==
  /\ status = 200
  /\ calc.base_liquida_irrf = 282665000
  /\ resposta.aliquota_irrf = 750000
  /\ resposta.deducao_conforme_tabela = 18216000

\* The request the handler read these four numbers from.
Leu(rt, po, qd, pa) ==
  /\ status # 0
  /\ Entradas(corpo) =
       [rendimento_tributavel  |-> Num(rt),
        previdencia_oficial    |-> Num(po),
        quantidade_dependentes |-> Num(qd),
        pensao_alimenticia     |-> Num(pa)]

(* C12: to an income of 5000, a contribution of 750, 2 dependents and no   *)
(* alimony (net base 3870.82) the response reports the rate 7.5%, the      *)
(* table deduction 182.16 and a tax before the reduction of 107.11.        *)
C12_CenarioA ==
  Leu(500000000, 75000000, 200000, 0) =>
    /\ status = 200
    /\ resposta.base_liquida_irrf = 387082000
    /\ resposta.aliquota_irrf = 750000
    /\ resposta.deducao_conforme_tabela = 18216000
    /\ resposta.valor_irrf = 10711000

(* C13: whenever the net base is in the first bracket (not above 2428.80,  *)
(* rate 0, table deduction 0) the tax before the reduction, the reduction  *)
(* and the final tax are 0; an income of 2000 with no contribution, no     *)
(* dependents and no alimony gets the deduction 607.20, the net base       *)
(* 1392.80 and the three amounts 0.                                        *)
C13_PrimeiraFaixaSemImposto ==
  /\ (status = 200 /\ calc.base_liquida_irrf <= 242880000) =>
       /\ resposta.aliquota_irrf = 0
       /\ resposta.deducao_conforme_tabela = 0
       /\ resposta.valor_irrf = 0
       /\ ReducaoFinal = 0
       /\ calc.valor_irrf_apos_pl_1087_25 = 0
       /\ "reducao_pl_1087_25" \in DOMAIN resposta => resposta.reducao_pl_1087_25 = 0
       /\ "valor_irrf_apos_pl_1087_25" \in DOMAIN resposta =>
            resposta.valor_irrf_apos_pl_1087_25 = 0
  /\ Leu(200000000, 0, 0, 0) =>
       /\ status = 200
       /\ calc.deducao_total_aplicada = 60720000
       /\ resposta.desconto_simplificado_aplicado = 60720000
       /\ resposta.base_liquida_irrf = 139280000
       /\ resposta.valor_irrf = 0
       /\ resposta.reducao_pl_1087_25 = 0
       /\ resposta.valor_irrf_apos_pl_1087_25 = 0

\* A net base of exactly 2428.80, the last of the first bracket, from an
\* income that carries legal deductions.
C13_Testemunha ==
  /\ status = 200
  /\ calc.base_liquida_irrf = 242880000
  /\ calc.soma_deducoes > 0
  /\ resposta.valor_irrf = 0
  /\ resposta.valor_irrf_apos_pl_1087_25 = 0

\* The four numbers a valid request was computed from.
Lido(campo) == Entradas(corpo)[campo].valor

\* A valid request answered, its three amounts given in whole cents.
EmCentavos ==
  /\ status = 200
  /\ EntradaValida(corpo)
  /\ \A k \in {"rendimento_tributavel", "previdencia_oficial", "pensao_alimenticia"} :
       Lido(k) % 1000 = 0

\* ... and none of them so large that a double no longer tells its cents apart.
QuantiasComuns ==
  \A k \in {"rendimento_tributavel", "previdencia_oficial", "pensao_alimenticia"} :
    Lido(k) < Enorme

\* The deductions of C14 for the request answered, in exact arithmetic.
DependentesExato == (Lido("quantidade_dependentes") \div 100000) * 18959000
SomaExata == Lido("previdencia_oficial") + DependentesExato + Lido("pensao_alimenticia")

\* The figures of C14 wherever the handler keeps or reports them.
DeducoesConferem ==
  /\ calc.deducao_dependentes = DependentesExato
  /\ calc.soma_deducoes = SomaExata
  /\ "valor_deducoes_dependentes" \in DOMAIN resposta =>
       resposta.valor_deducoes_dependentes = DependentesExato
  /\ "memoria_calculo" \in DOMAIN resposta =>
       /\ resposta.memoria_calculo.etapas[1].resultado = DependentesExato
       /\ resposta.memoria_calculo.etapas[2].resultado = SomaExata

CenarioADeducoes ==
  Leu(500000000, 75000000, 200000, 0) =>
    /\ status = 200
    /\ calc.deducao_dependentes = 37918000
    /\ calc.soma_deducoes = 112918000
    /\ ~calc.simplificado_minimo_usado
    /\ resposta.valor_deducoes_dependentes = 37918000
    /\ resposta.base_liquida_irrf = 387082000

(* C14 as stated: for every valid input with amounts in whole cents the    *)
(* dependents deduction is the count times 189.59 and the sum of the legal *)
(* deductions is contribution + dependents deduction + alimony, to the     *)
(* cent; income 5000, contribution 750, 2 dependents give 379.18, 1129.18  *)
(* (itemized) and the net base 3870.82.                                    *)
C14_DeducoesQualquerQuantia ==
  /\ EmCentavos => DeducoesConferem
  /\ CenarioADeducoes

(* C14 amended: the same for amounts that a double still resolves to the   *)
(* cent (here: every amount of the inputs but the overflowing one).        *)
C14_DeducoesLegais ==
  /\ (EmCentavos /\ QuantiasComuns) => DeducoesConferem
  /\ CenarioADeducoes

\* Three dependents, a contribution and an alimony, itemized.
C14_Testemunha ==
  /\ EmCentavos
  /\ QuantiasComuns
  /\ Lido("quantidade_dependentes") = 300000
  /\ Lido("previdencia_oficial") = 75000000
  /\ Lido("pensao_alimenticia") = 30000000
  /\ calc.soma_deducoes = 161877000
  /\ ~calc.simplificado_minimo_usado

\* base * (aliquota / 100) - deducao in exact arithmetic, for a base and a
\* bracket that are finite.
BrutoExato(base, faixa) ==
  (base \div 1000) * (faixa.aliquota \div 10000) - faixa.deducao

\* x rounded to the cent, half a cent going up.
MeioParaCima(x) == 1000 * ((x + 500) \div 1000)

(* C15: for every valid input the tax before the reduction is the net base *)
(* times rate/100 less the table deduction of the bracket selected, 0 when *)
(* that is negative or not finite, rounded to the cent with half a cent    *)
(* going up.                                                               *)
C15_ImpostoMeioParaCima ==
  (status = 200 /\ EntradaValida(corpo)) =>
    LET base == calc.base_liquida_irrf
        faixa == [aliquota |-> calc.aliquota_irrf, deducao |-> calc.deducao_conforme_tabela]
    IN  resposta.valor_irrf =
          IF ~NumberIsFinite(base) \/ BrutoExato(base, faixa) < 0 THEN 0
          ELSE MeioParaCima(BrutoExato(base, faixa))

\* 978.62 - 0.133145 * rendimento in exact arithmetic, rounded to the cent
\* with half a cent going up.
FormulaMeioParaCima(rendimento) ==
  LET p == coeficienteVezes(rendimento)
  IN  IF p[2] > 0 THEN 1000 * ((97862000 - p[1] + 499) \div 1000)
      ELSE MeioParaCima(97862000 - p[1])

\* The candidate reduction of C16 for an income and a tax before reduction.
Candidata(rendimento, imposto) ==
  IF imposto = 0 THEN 0
  ELSE IF rendimento <= 500000000 THEN MathMin(imposto, 31289000)
  ELSE IF rendimento <= 735000000 THEN FormulaMeioParaCima(rendimento)
  ELSE 0

(* C16: the candidate reduction goes by the income, not by the net base:   *)
(* min(tax, 312.89) up to 5000; 978.62 - 0.133145 x income rounded to the  *)
(* cent above 5000 and up to 7350; 0 above 7350; 0 in every branch when    *)
(* the tax before the reduction is 0.  The reduction reported is the       *)
(* candidate clamped between 0 and the tax before the reduction.           *)
C16_ReducaoPeloRendimento ==
  (status = 200 /\ EntradaValida(corpo)) =>
    LET esperada ==
          MathMax(0, MathMin(Candidata(Lido("rendimento_tributavel"), calc.valor_irrf),
                             calc.valor_irrf))
    IN  /\ ReducaoFinal = esperada
        /\ "reducao_pl_1087_25" \in DOMAIN resposta =>
             resposta.reducao_pl_1087_25 = esperada

(* C17: whenever the response reports the final tax, it is the tax before  *)
(* the reduction less the final reduction, to the cent: valor_irrf =       *)
(* reducao_pl_1087_25 + valor_irrf_apos_pl_1087_25.                        *)
C17_ImpostoFinalFecha ==
  (status = 200 /\ "valor_irrf_apos_pl_1087_25" \in DOMAIN resposta) =>
    /\ "reducao_pl_1087_25" \in DOMAIN resposta
    /\ resposta.valor_irrf_apos_pl_1087_25 = resposta.valor_irrf - ReducaoFinal
    /\ resposta.valor_irrf =
         resposta.reducao_pl_1087_25 + resposta.valor_irrf_apos_pl_1087_25

\* An income between 5000 and 7350 whose formula gives more than the tax:
\* the reduction is the whole tax and the final tax is 0.
C17_Testemunha ==
  /\ status = 200
  /\ "valor_irrf_apos_pl_1087_25" \in DOMAIN resposta
  /\ Lido("rendimento_tributavel") > 500000000
  /\ resposta.valor_irrf > 0
  /\ resposta.valor_irrf < reducaoFormula(Lido("rendimento_tributavel"))
  /\ resposta.valor_irrf_apos_pl_1087_25 = 0

(* C18: every calculation trace (memoria_calculo.etapas) is a sequence of  *)
(* exactly nine steps with the ordinals 1..9 in ascending order, each with *)
(* a title, a description, a formula string, named values and a result;    *)
(* the result of step 5 (the bracket) is the pair rate, table deduction,   *)
(* and the result of every other step is one number.                       *)
C18_NoveEtapas ==
  (status # 0 /\ "memoria_calculo" \in DOMAIN resposta) =>
    LET etapas == resposta.memoria_calculo.etapas
    IN  /\ DOMAIN etapas = 1..9
        /\ \A i \in 1..9 :
             /\ DOMAIN etapas[i] =
                  {"ordem", "titulo", "descricao", "formula", "valores", "resultado"}
             /\ etapas[i].ordem = i
             /\ etapas[i].titulo # ""
             /\ etapas[i].descricao # ""
             /\ etapas[i].formula # ""
             /\ DOMAIN etapas[i].valores # {}
             /\ IF i = 5
                THEN /\ DOMAIN etapas[i].resultado = {"aliquota", "deducao"}
                     /\ etapas[i].resultado.aliquota = resposta.aliquota_irrf
                     /\ etapas[i].resultado.deducao = resposta.deducao_conforme_tabela
                ELSE etapas[i].resultado \in Int
        /\ \A i, j \in 1..9 : i # j => etapas[i].titulo # etapas[j].titulo

\* The trace of a request taxed at 22.5%, reduced in part.
C18_Testemunha ==
  /\ status = 200
  /\ "memoria_calculo" \in DOMAIN resposta
  /\ Len(resposta.memoria_calculo.etapas) = 9
  /\ resposta.memoria_calculo.etapas[5].resultado.aliquota = 2250000
  /\ resposta.memoria_calculo.etapas[8].resultado > 0
  /\ resposta.memoria_calculo.etapas[9].resultado > 0

\* What the deployed handler answers to a body.
Responde(body) == IF versao = 2 THEN HandlerV2(body) ELSE HandlerV1(body)

\* The request answered got the status and the body that this other request
\* gets.
ComoSeFosse(body) ==
  /\ status = Responde(body).status
  /\ resposta = Responde(body).resposta

\* A body without the key.
Sem(body, chave) == [k \in DOMAIN body \ {chave} |-> body[k]]

(* C19: the alimony is optional: a request with no alimony key is computed *)
(* as the same request with alimony 0; a request with the alimony only     *)
(* under the key with a trailing space is computed as the same request     *)
(* with that value under the canonical key; with both keys present the     *)
(* value of the canonical key is the one used.                             *)
C19_PensaoOpcional ==
  status # 0 =>
    LET canonica == "pensao_alimenticia" \in DOMAIN corpo
        alternativa == CHAVE_ALTERNATIVA \in DOMAIN corpo
    IN  /\ (~canonica /\ ~alternativa) =>
             ComoSeFosse(corpo @@ [pensao_alimenticia |-> Num(0)])
        /\ (~canonica /\ alternativa) =>
             ComoSeFosse(Sem(corpo, CHAVE_ALTERNATIVA)
                         @@ [pensao_alimenticia |-> corpo[CHAVE_ALTERNATIVA]])
        /\ (canonica /\ alternativa) =>
             ComoSeFosse(Sem(corpo, CHAVE_ALTERNATIVA))

(* C20: the backend's CORS configuration is open (origin "*"): a request   *)
(* from another origin is permitted whatever that origin is, the frontend  *)
(* served from localhost included: the response, and the answer to the     *)
(* preflight, carry Access-Control-Allow-Origin with "*" or the origin.    *)
C20_CorsAberto ==
  (status # 0 /\ origem # SemOrigem) =>
    /\ "Access-Control-Allow-Origin" \in DOMAIN cabecalhos
    /\ cabecalhos["Access-Control-Allow-Origin"] \in {"*", origem}

\* The net base of C21 for the request answered: the income less the larger
\* of the sum of the legal deductions and 607.20, to the cent (a finite
\* income less an infinite sum is -Infinity).
BaseEsperada(soma) ==
  IF soma = Infinity THEN -Infinity
  ELSE MeioParaCima(Lido("rendimento_tributavel") - MathMax(soma, 60720000))

\* The net base wherever the handler keeps or reports it, and what follows
\* from a negative one.
BaseConfere(soma) ==
  /\ calc.deducao_total_aplicada = MathMax(soma, 60720000)
  /\ calc.base_liquida_irrf = BaseEsperada(soma)
  /\ resposta.base_liquida_irrf = BaseEsperada(soma)
  /\ "memoria_calculo" \in DOMAIN resposta =>
       resposta.memoria_calculo.etapas[4].resultado = BaseEsperada(soma)
  /\ BaseEsperada(soma) < 0 =>
       /\ resposta.base_liquida_irrf < 0
       /\ resposta.aliquota_irrf = 0
       /\ resposta.valor_irrf = 0

C22_FlagEstrita ==
  status = 200 =>
    /\ calc.simplificado_minimo_usado <=> (calc.soma_deducoes < 60720000)
    /\ (EmCentavos /\ QuantiasComuns) =>
         (calc.simplificado_minimo_usado <=> (SomaExata < 60720000))
    /\ calc.simplificado_minimo_usado <=>
         "desconto_simplificado_aplicado" \in DOMAIN resposta
    /\ "memoria_calculo" \in DOMAIN resposta =>
         (resposta.memoria_calculo.etapas[3].valores.utilizou_simplificado_minimo
            <=> (resposta.memoria_calculo.etapas[2].resultado < 60720000))
    /\ calc.soma_deducoes = 60720000 =>
         /\ ~calc.simplificado_minimo_usado
         /\ calc.deducao_total_aplicada = 60720000
         /\ Itemizados \subseteq DOMAIN resposta
         /\ "desconto_simplificado_aplicado" \notin DOMAIN resposta

\* A contribution of exactly 607.20 and nothing else: itemized.
C22_Testemunha ==
  /\ EmCentavos
  /\ Lido("previdencia_oficial") = 60720000
  /\ calc.soma_deducoes = 60720000
  /\ ~calc.simplificado_minimo_usado
  /\ resposta.previdencia_oficial = 60720000

\* The steps of the trace that report the reduction and the tax after it.
ETAPAS_DA_REDUCAO == { "Reducao PL 1087/25 (regra aplicada)",
                       "Reducao aplicada ao imposto",
                       "IRRF apos PL 1087/25" }

(* C23: the final tax is reported only up to an income of 7350; above it   *)
(* only the message stands for the transitional rule: the response holds   *)
(* no amount of reduction and no tax after the reduction, neither as a     *)
(* field of its own nor as the result of a step of the trace.              *)
C23_SoAMensagem ==
  /\ (status = 200 /\ "valor_irrf_apos_pl_1087_25" \in DOMAIN resposta) =>
       Lido("rendimento_tributavel") <= 735000000
  /\ (status = 200 /\ EntradaValida(corpo) /\ Lido("rendimento_tributavel") > 735000000) =>
       /\ "mensagem" \in DOMAIN resposta
       /\ "valor_irrf_apos_pl_1087_25" \notin DOMAIN resposta
       /\ "reducao_pl_1087_25" \notin DOMAIN resposta
       /\ "memoria_calculo" \in DOMAIN resposta =>
            \A i \in DOMAIN resposta.memoria_calculo.etapas :
              resposta.memoria_calculo.etapas[i].titulo \notin ETAPAS_DA_REDUCAO

(* C24: for every valid input with an income up to 5000 the final tax      *)
(* after the PL 1087/25 reduction is 0.00: the deduction applied being at  *)
(* least 607.20, the tax before the reduction never passes 312.89, and the *)
(* reduction is the whole tax.                                             *)
C24_AteCincoMilZero ==
  (status = 200 /\ EntradaValida(corpo) /\ Lido("rendimento_tributavel") <= 500000000) =>
    /\ calc.deducao_total_aplicada >= 60720000
    /\ resposta.valor_irrf <= 31289000
    /\ ReducaoFinal = resposta.valor_irrf
    /\ resposta.reducao_pl_1087_25 = resposta.valor_irrf
    /\ resposta.valor_irrf_apos_pl_1087_25 = 0

\* An income of exactly 5000 with the minimum deduction: a tax of 312.89,
\* all of it reduced.
C24_Testemunha ==
  /\ status = 200
  /\ EntradaValida(corpo)
  /\ Lido("rendimento_tributavel") = 500000000
  /\ resposta.valor_irrf = 31289000
  /\ resposta.valor_irrf_apos_pl_1087_25 = 0

(* C25: the tax before the reduction never falls as the net base rises:    *)
(* for two net bases b1 <= b2 in whole cents the tax of b1 is not above    *)
(* that of b2, across the limits of the brackets too: a base one cent      *)
(* above a limit is never taxed less than the base at the limit.           *)
C25_ImpostoMonotono ==
  par # Vazio => par.i1.valor_irrf <= par.i2.valor_irrf

\* The base at the limit 4664.68 and the base one cent above, in two
\* brackets, both taxed 374.06.
C25_Testemunha ==
  /\ par # Vazio
  /\ par.b1 = 466468000
  /\ par.b2 = 466469000
  /\ par.i1.aliquota_irrf = 2250000
  /\ par.i2.aliquota_irrf = 2750000
  /\ par.i1.valor_irrf = 37406000
  /\ par.i2.valor_irrf = 37406000

\* What the version that did not answer the last request gives for a body.
AOutra(body) ==
  IF versao = 2 THEN HandlerV1(body) ELSE HandlerV2(body)

\* The fields both versions report whatever the income.
CAMPOS_DO_IMPOSTO ==
  { "base_liquida_irrf", "aliquota_irrf", "deducao_conforme_tabela",
    "valor_irrf" }

\* The fields both versions report up to an income of 7350.
CAMPOS_DA_REDUCAO == { "reducao_pl_1087_25", "valor_irrf_apos_pl_1087_25" }

(* C26: the two versions of the handler agree: a request is accepted by    *)
(* both or rejected by both with the same error, and for a valid input     *)
(* both give the same net base, rate, table deduction and tax before the   *)
(* reduction, and up to an income of 7350 the same reduction and the same  *)
(* final tax.                                                              *)
C26_VersoesConcordam ==
  status # 0 =>
    LET outra == AOutra(corpo)
    IN  /\ outra.status = status
        /\ status = 400 => outra.resposta = resposta
        /\ status = 200 =>
             /\ \A campo \in CAMPOS_DO_IMPOSTO :
                  /\ campo \in DOMAIN resposta
                  /\ campo \in DOMAIN outra.resposta
                  /\ outra.resposta[campo] = resposta[campo]
             /\ Lido("rendimento_tributavel") <= 735000000 =>
                  \A campo \in CAMPOS_DA_REDUCAO :
                    /\ campo \in DOMAIN resposta
                    /\ campo \in DOMAIN outra.resposta
                    /\ outra.resposta[campo] = resposta[campo]

\* Version 1 answered an income between 5000 and 7350 whose reduction is
\* the whole tax, and version 2 gives the same reduction for the same body.
C26_Testemunha ==
  /\ status = 200
  /\ versao = 1
  /\ Lido("rendimento_tributavel") > 500000000
  /\ Lido("rendimento_tributavel") <= 735000000
  /\ resposta.valor_irrf > 0
  /\ resposta.reducao_pl_1087_25 = resposta.valor_irrf
  /\ resposta.reducao_pl_1087_25 < reducaoFormula(Lido("rendimento_tributavel"))
  /\ HandlerV2(corpo).resposta.reducao_pl_1087_25 = resposta.valor_irrf
  /\ resposta.valor_irrf_apos_pl_1087_25 = 0

\* The trace of the response, by ordinal.
EtapaDaResposta(ordem) == resposta.memoria_calculo.etapas[ordem]

\* The response carries a trace and it agrees with the response's figures.
TracoConfere ==
  /\ EtapaDaResposta(4).resultado = resposta.base_liquida_irrf
  /\ EtapaDaResposta(5).resultado =
       [aliquota |-> resposta.aliquota_irrf,
        deducao  |-> resposta.deducao_conforme_tabela]
  /\ EtapaDaResposta(6).resultado = resposta.valor_irrf
  /\ EtapaDaResposta(7).resultado = resposta.reducao_pl_1087_25
  /\ EtapaDaResposta(8).resultado = EtapaDaResposta(7).resultado
  /\ EtapaDaResposta(9).resultado =
       Menos(EtapaDaResposta(6).resultado, EtapaDaResposta(8).resultado)
  /\ "valor_irrf_apos_pl_1087_25" \in DOMAIN resposta =>
       EtapaDaResposta(9).resultado = resposta.valor_irrf_apos_pl_1087_25

\* The three amounts of the request are below the scales of trillions.
QuantiasAbaixoDeTrilhoes ==
  \A campo \in { "rendimento_tributavel", "previdencia_oficial",
                 "pensao_alimenticia" } : Lido(campo) < Escala43

----------------------------------------------------------------------------
(* The form (unnamed/part_001): App, its handlers and its fetches. *)

MaxPedidos == 2

\* The form with the trace button is the form of version 2, the one that
\* answers with a trace.
InitNoNavegador == Construido /\ versao = 2 /\ ambiente \in Ambientes

\* Number(text) for the texts the form can hold: the empty text is 0, a
\* decimal numeral its value, "Infinity" Infinity, anything else NaN (a
\* numeral with a comma too).
Number(texto) ==
  CASE texto = ""         -> 0
    [] texto = "0"        -> 0
    [] texto = "1"        -> 100000
    [] texto = "2"        -> 200000
    [] texto = "25"       -> 2500000
    [] texto = "2.5"      -> 250000
    [] texto = "5000"     -> 500000000
    [] texto = "-1"       -> -100000
    [] texto = "Infinity" -> Infinity
    [] OTHER              -> NaN

\* value.replace(/[^0-9]/g, ''): the digits of the text.
SoDigitos(texto) ==
  CASE texto = "2,5"      -> "25"
    [] texto = "2.5"      -> "25"
    [] texto = "-1"       -> "1"
    [] texto = "abc"      -> ""
    [] texto = "Infinity" -> ""
    [] OTHER              -> texto

\* value.replace(',', '.'): the first comma becomes a point.
VirgulaPorPonto(texto) ==
  CASE texto = "2,5" -> "2.5"
    [] OTHER         -> texto

\* e.target.value of each input: what is typed or pasted into it, taken
\* wider than a browser's number input hands over (type, min and step are
\* not relied on).
Digitados ==
  [rendimento_tributavel  |-> { "5000", "abc" },
   previdencia_oficial    |-> { "Infinity" },
   quantidade_dependentes |-> { "2,5", "abc" },
   pensao_alimenticia     |-> { "-1" }]

\* The onChange of each input (lines 144, 159, 173, 185).
onChange(name, texto) ==
  IF name = "quantidade_dependentes" THEN SoDigitos(texto)
  ELSE VirgulaPorPonto(texto)

\* isValid with pa >= 0 left out.
isValidSemPensao(f) ==
  LET rt == Number(f.rendimento_tributavel)
      po == Number(f.previdencia_oficial)
      qd == Number(f.quantidade_dependentes)
      pa == IF f.pensao_alimenticia = "" THEN 0 ELSE Number(f.pensao_alimenticia)
  IN  /\ NumberIsFinite(rt) /\ rt >= 0
      /\ NumberIsFinite(po) /\ po >= 0
      /\ NumberIsInteger(qd) /\ qd >= 0
      /\ NumberIsFinite(pa)

\* const isValid = useMemo(...) (lines 24-35)
isValid(f) ==
  LET rt == Number(f.rendimento_tributavel)
      po == Number(f.previdencia_oficial)
      qd == Number(f.quantidade_dependentes)
      pa == IF f.pensao_alimenticia = "" THEN 0 ELSE Number(f.pensao_alimenticia)
  IN  /\ NumberIsFinite(rt) /\ rt >= 0
      /\ NumberIsFinite(po) /\ po >= 0
      /\ NumberIsInteger(qd) /\ qd >= 0
      /\ NumberIsFinite(pa) /\ pa >= 0

\* JSON.stringify of a number, read back by express.json(): NaN and the
\* infinities are written as null.
JSONNumero(x) == IF NumberIsFinite(x) THEN [tipo |-> "number", valor |-> x] ELSE null

\* const payload = { ... } (lines 71-76), as the server reads it.
Payload(f) ==
  [rendimento_tributavel  |-> JSONNumero(Number(f.rendimento_tributavel)),
   previdencia_oficial    |-> JSONNumero(Number(f.previdencia_oficial)),
   quantidade_dependentes |-> JSONNumero(Number(f.quantidade_dependentes)),
   pensao_alimenticia     |->
     JSONNumero(IF f.pensao_alimenticia = "" THEN 0
                ELSE Number(f.pensao_alimenticia))]

ERRO_FORMULARIO == "Verifique os campos: valores invalidos."
ERRO_CONEXAO == "Falha ao conectar a API. Verifique se a API esta em execucao e acessivel."
ERRO_503 == "Erro 503"
ERRO_STATUS == "Erro de status"

\* What fetch resolves to: the status and the JSON of the body (null when the
\* body is not JSON).  The server's answer to a payload, and the answer of a
\* gateway in front of a server that is down.
RespDoServidor(payload) ==
  [status |-> Responde(payload).status, data |-> Responde(payload).resposta]

RespIndisponivel == [status |-> 503, data |-> null]

SemResp == [status |-> 0, data |-> null]

\* resp.ok
Ok(resp) == resp.status >= 200 /\ resp.status <= 299

\* data?.erro || `Erro ${resp.status}` (line 98)
MensagemDe(resp) ==
  IF "erro" \in DOMAIN resp.data THEN resp.data.erro
  ELSE IF resp.status = 503 THEN ERRO_503
  ELSE ERRO_STATUS

\* The submit button is enabled (line 198) and the required inputs are
\* filled (lines 148, 163, 174): the browser lets the form be submitted.
PodeSubmeter ==
  /\ ~loading
  /\ isValid(form)
  /\ form.rendimento_tributavel # ""
  /\ form.previdencia_oficial # ""
  /\ form.quantidade_dependentes # ""

Retira(i) == [k \in 1..(Len(pedidos) - 1) |-> IF k < i THEN pedidos[k] ELSE pedidos[k + 1]]

\* updateField, from the onChange of an input.
updateField ==
  /\ \E name \in DOMAIN Digitados :
       \E texto \in Digitados[name] :
         form' = [form EXCEPT ![name] = onChange(name, texto)]
  /\ ultimo' = [evento |-> "outro", status |-> 0]
  /\ UNCHANGED <<loading, error, result, showMemoria, pedidos, ambiente, limpo>>
  /\ UNCHANGED <<servidor, par>>

\* handleClear (lines 48-59); the fetches under way are left alone.
handleClear ==
  /\ form' = [rendimento_tributavel  |-> "",
              previdencia_oficial    |-> "0",
              quantidade_dependentes |-> "0",
              pensao_alimenticia     |-> ""]
  /\ result' = null
  /\ error' = ""
  /\ loading' = FALSE
  /\ limpo' = TRUE
  /\ ultimo' = [evento |-> "outro", status |-> 0]
  /\ UNCHANGED <<showMemoria, pedidos, ambiente>>
  /\ UNCHANGED <<servidor, par>>

\* handleSubmit up to its first await (lines 61-82).
handleSubmit ==
  /\ PodeSubmeter
  /\ Len(pedidos) < MaxPedidos
  /\ result' = null
  /\ limpo' = FALSE
  /\ IF ~isValid(form)
     THEN /\ error' = ERRO_FORMULARIO
          /\ ultimo' = [evento |-> "outro", status |-> 0]
          /\ UNCHANGED <<loading, pedidos>>
     ELSE /\ error' = ""
          /\ loading' = TRUE
          /\ pedidos' = Append(pedidos, [payload |-> Payload(form),
                                         tentativa |-> 1,
                                         original |-> SemResp])
          /\ ultimo' = [evento |-> "outro", status |-> 0]
  /\ UNCHANGED <<form, showMemoria, ambiente>>
  /\ UNCHANGED <<servidor, par>>

\* Lines 96-110 for the response resp of the i-th fetch: the result on a
\* resp.ok, the error otherwise, and loading off in the finally.
Termina(i, resp) ==
  /\ IF Ok(resp)
     THEN /\ result' = resp.data
          /\ showMemoria' = FALSE
          /\ UNCHANGED error
     ELSE /\ error' = MensagemDe(resp)
          /\ UNCHANGED <<result, showMemoria>>
  /\ loading' = FALSE
  /\ pedidos' = Retira(i)
  /\ ultimo' = [evento |-> "concluiu", status |-> resp.status]
  /\ UNCHANGED <<form, ambiente, limpo>>

\* Lines 83-95: a response that is not ok, in a development build on
\* localhost, and the request is sent again.
Reenvia(i, resp) ==
  /\ pedidos' = [pedidos EXCEPT ![i] = [@ EXCEPT !.tentativa = 2, !.original = resp]]
  /\ ultimo' = [evento |-> "reenviou", status |-> resp.status]
  /\ UNCHANGED <<form, loading, error, result, showMemoria, ambiente, limpo>>

\* The first fetch rejects ('Failed to fetch'): lines 103-110.
Falhou(i) ==
  /\ error' = ERRO_CONEXAO
  /\ loading' = FALSE
  /\ pedidos' = Retira(i)
  /\ ultimo' = [evento |-> "concluiu", status |-> 0]
  /\ UNCHANGED <<form, result, showMemoria, ambiente, limpo>>

\* A fetch settles with resp, or rejects when resp is SemResp.
Assenta(i, resp) ==
  IF pedidos[i].tentativa = 1
  THEN IF resp = SemResp THEN Falhou(i)
       ELSE IF ~Ok(resp) /\ ambiente = "dev_localhost" THEN Reenvia(i, resp)
       ELSE Termina(i, resp)
  ELSE IF resp = SemResp THEN Termina(i, pedidos[i].original)
       ELSE Termina(i, resp)

\* The server answers the i-th fetch.
RespostaDoServidor ==
  /\ \E i \in 1..Len(pedidos) : Assenta(i, RespDoServidor(pedidos[i].payload))
  /\ UNCHANGED <<servidor, par>>

\* A gateway answers 503 for a server that is down.
RespostaIndisponivel ==
  /\ \E i \in 1..Len(pedidos) : Assenta(i, RespIndisponivel)
  /\ UNCHANGED <<servidor, par>>

\* The network fails and the fetch rejects.
FalhaDeRede ==
  /\ \E i \in 1..Len(pedidos) : Assenta(i, SemResp)
  /\ UNCHANGED <<servidor, par>>

\* The Memoria de Calculo button (line 201) and the modal's onClose.
AbreMemoria ==
  /\ "memoria_calculo" \in DOMAIN result
  /\ ~showMemoria
  /\ showMemoria' = TRUE
  /\ ultimo' = [evento |-> "outro", status |-> 0]
  /\ UNCHANGED <<form, loading, error, result, pedidos, ambiente, limpo>>
  /\ UNCHANGED <<servidor, par>>

FechaMemoria ==
  /\ showMemoria
  /\ showMemoria' = FALSE
  /\ ultimo' = [evento |-> "outro", status |-> 0]
  /\ UNCHANGED <<form, loading, error, result, pedidos, ambiente, limpo>>
  /\ UNCHANGED <<servidor, par>>

NextFormulario ==
  \/ updateField
  \/ handleClear
  \/ handleSubmit
  \/ RespostaDoServidor
  \/ RespostaIndisponivel
  \/ FalhaDeRede
  \/ AbreMemoria
  \/ FechaMemoria

SpecFormulario == InitNoNavegador /\ [][NextFormulario]_vars

----------------------------------------------------------------------------
(* C28: the form sends a request only when isValid holds, and every       *)
(* payload it sends passes the server's validation: four finite numbers,   *)
(* no negative amount, a non-negative integer count of dependents.  So no  *)
(* fetch of the form is answered with the 400 of the validation, and none  *)
(* of the validation's messages is shown.                                  *)
C28_FormularioPassaNaValidacao ==
  /\ \A i \in 1..Len(pedidos) :
       /\ Validacao(Entradas(pedidos[i].payload)) = ""
       /\ RespDoServidor(pedidos[i].payload).status # 400
       /\ pedidos[i].original.status # 400
  /\ ultimo.status # 400
  /\ error \notin { ERRO_CAMPOS, ERRO_NEGATIVOS, ERRO_DEPENDENTES }

\* A submission of 5000.00 with 25 dependents, typed as "2,5", came back
\* with the 200 of the server and its result is on the screen.
C28_Testemunha ==
  /\ ultimo = [evento |-> "concluiu", status |-> 200]
  /\ form.rendimento_tributavel = "5000"
  /\ form.quantidade_dependentes = "25"
  /\ "valor_irrf" \in DOMAIN result
  /\ result = RespDoServidor(Payload(form)).data
  /\ error = ""
  /\ ~loading

(* C29: after every completed submission exactly one of error and result   *)
(* is set and loading is false: the submission cleared both, a response   *)
(* that is ok set only the result, a failure set only the error, and the   *)
(* finally turned loading off.                                             *)
C29_UmDosDois ==
  ultimo.evento = "concluiu" =>
    /\ (error = "") # (result = null)
    /\ ~loading

(* C30: once handleClear has run, the result and the error stay empty and  *)
(* loading stays false until handleSubmit runs again: the response to a    *)
(* request sent before the Clear fills in neither of them.                 *)
C30_LimpoFicaLimpo ==
  limpo => (result = null /\ error = "" /\ ~loading)

====
